---- MODULE Spec2Model ----
(***************************************************************************)
(* Model of hmmer_tables/domtbl.py: read_domtbl, the DomTBL* record types, *)
(* DomTBLCoord.interval and DomTBLRow.__iter__.                            *)
(*                                                                         *)
(* A token is a sequence of one-character strings, a line is the sequence  *)
(* of tokens csv_iter yields for it, a file is a sequence of lines.        *)
(***************************************************************************)
EXTENDS Integers, Sequences, FiniteSets, TLC

VARIABLES arg, file, handle, pos, rows, pc, result, error,
          iter_out, assign_out, nassign, coord, ival

vars == <<arg, file, handle, pos, rows, pc, result, error,
          iter_out, assign_out, nassign, coord, ival>>

readerVars == <<arg, file, handle, pos, rows, pc, result, error>>
callerVars == <<iter_out, assign_out, nassign>>
coordVars == <<coord, ival>>

(***************************************************************************)
(* Bounds.                                                                 *)
(***************************************************************************)
MaxLines == 2
MaxAssign == 1
MaxCoord == 5

(***************************************************************************)
(* Tokens.                                                                 *)
(***************************************************************************)
Digit == {"0", "1", "2", "3", "4", "5", "6", "7", "8", "9"}

DigitVal(c) ==
    CASE c = "1" -> 1 [] c = "2" -> 2 [] c = "3" -> 3 [] c = "4" -> 4
      [] c = "5" -> 5 [] c = "6" -> 6 [] c = "7" -> 7 [] c = "8" -> 8
      [] c = "9" -> 9 [] OTHER -> 0

\* x[i] with Python's 0-based index
At(x, i) == x[i + 1]

\* x[:n]
Take(x, n) == SubSeq(x, 1, n)

\* x[n:]
Drop(x, n) == SubSeq(x, n + 1, Len(x))

HasSign(t) == Len(t) > 0 /\ t[1] \in {"+", "-"}

Unsigned(t) == IF HasSign(t) THEN Drop(t, 1) ELSE t

\* int(t) accepts: an optional sign, then decimal digits, where single
\* underscores may separate digits (no leading, trailing or doubled one).
IsPyIntLiteral(t) ==
    LET b == Unsigned(t) IN
    /\ Len(b) > 0
    /\ b[1] \in Digit
    /\ b[Len(b)] \in Digit
    /\ \A i \in 1..Len(b) : b[i] \in Digit \cup {"_"}
    /\ \A i \in 1..(Len(b) - 1) : ~(b[i] = "_" /\ b[i + 1] = "_")

RECURSIVE DigitsValue(_, _)
DigitsValue(b, acc) ==
    IF b = <<>> THEN acc
    ELSE IF b[1] \in Digit THEN DigitsValue(Drop(b, 1), 10 * acc + DigitVal(b[1]))
    ELSE DigitsValue(Drop(b, 1), acc)

\* the value of int(t) for a literal int accepts
PyInt(t) ==
    IF Len(t) > 0 /\ t[1] = "-" THEN 0 - DigitsValue(Unsigned(t), 0)
    ELSE DigitsValue(Unsigned(t), 0)

\* " ".join(ts)
RECURSIVE Join(_)
Join(ts) ==
    IF ts = <<>> THEN <<>>
    ELSE IF Len(ts) = 1 THEN ts[1]
    ELSE ts[1] \o <<" ">> \o Join(Drop(ts, 1))

(***************************************************************************)
(* Row construction (the body of the loop of read_domtbl).                 *)
(***************************************************************************)
\* the same with id=x[9] left unconverted
IntPos_NoDomainId == {2, 5, 10, 15, 16, 17, 18, 19, 20}

\* positions passed through int()
IntPos == {2, 5, 9, 10, 15, 16, 17, 18, 19, 20}

\* the highest index the constructor call subscripts
LastIndex == 21

\* where the description slice starts
DescStart == 22

NoToken == <<"<none>">>
NoField == "<no field>"
NoLine == "<no line>"
NoError == [kind |-> "none", token |-> NoToken, field |-> NoField, line |-> NoLine]

\* IndexError("list index out of range"): no token, field or line in it
IndexError == [kind |-> "IndexError", token |-> NoToken, field |-> NoField, line |-> NoLine]

\* ValueError("invalid literal for int() with base 10: '<token>'")
ValueError(t) == [kind |-> "ValueError", token |-> t, field |-> NoField, line |-> NoLine]

TypeError == [kind |-> "TypeError", token |-> NoToken, field |-> NoField, line |-> NoLine]
OSError == [kind |-> "OSError", token |-> NoToken, field |-> NoField, line |-> NoLine]
IterError == [kind |-> "IterError", token |-> NoToken, field |-> NoField, line |-> NoLine]

\* evaluating the subscript or int() call at index i raises
RaisesAt(x, i) ==
    \/ i >= Len(x)
    \/ i \in IntPos /\ ~IsPyIntLiteral(At(x, i))

\* FirstFailure with a length test placed before the construction
FirstFailure_LengthFirst(x) ==
    IF Len(x) <= LastIndex THEN IndexError
    ELSE IF \E i \in 0..LastIndex : RaisesAt(x, i)
    THEN ValueError(At(x, CHOOSE i \in 0..LastIndex :
                       RaisesAt(x, i) /\ \A j \in 0..(i - 1) : ~RaisesAt(x, j)))
    ELSE NoError

\* The keyword arguments are evaluated left to right, which is index order
\* 0..21; the first subscript or int() that raises ends the construction.
FirstFailure(x) ==
    IF \E i \in 0..LastIndex : RaisesAt(x, i)
    THEN LET i == CHOOSE k \in 0..LastIndex :
                    RaisesAt(x, k) /\ \A j \in 0..(k - 1) : ~RaisesAt(x, j)
         IN IF i >= Len(x) THEN IndexError ELSE ValueError(At(x, i))
    ELSE NoError

DomTBLIndex(n, a, l) == [name |-> n, accession |-> a, length |-> l]
DomTBLSeqScore(e, s, b) == [e_value |-> e, score |-> s, bias |-> b]
DomTBLDomScore(i, n, c, iv, s, b) ==
    [id |-> i, size |-> n, c_value |-> c, i_value |-> iv, score |-> s, bias |-> b]
DomTBLCoord(s, e) == [start |-> s, stop |-> e]

\* DomTBLRow with the description slice taken from x[21:]
DomTBLRow_Shifted(x) ==
    [target |-> DomTBLIndex(At(x, 0), At(x, 1), PyInt(At(x, 2))),
     query |-> DomTBLIndex(At(x, 3), At(x, 4), PyInt(At(x, 5))),
     full_sequence |-> DomTBLSeqScore(At(x, 6), At(x, 7), At(x, 8)),
     domain |-> DomTBLDomScore(PyInt(At(x, 9)), PyInt(At(x, 10)),
                               At(x, 11), At(x, 12), At(x, 13), At(x, 14)),
     hmm_coord |-> DomTBLCoord(PyInt(At(x, 15)), PyInt(At(x, 16))),
     ali_coord |-> DomTBLCoord(PyInt(At(x, 17)), PyInt(At(x, 18))),
     env_coord |-> DomTBLCoord(PyInt(At(x, 19)), PyInt(At(x, 20))),
     acc |-> At(x, 21),
     description |-> Join(Drop(x, DescStart - 1))]

\* DomTBLRow(target=..., ..., description=" ".join(x[22:]))
DomTBLRow(x) ==
    [target |-> DomTBLIndex(At(x, 0), At(x, 1), PyInt(At(x, 2))),
     query |-> DomTBLIndex(At(x, 3), At(x, 4), PyInt(At(x, 5))),
     full_sequence |-> DomTBLSeqScore(At(x, 6), At(x, 7), At(x, 8)),
     domain |-> DomTBLDomScore(PyInt(At(x, 9)), PyInt(At(x, 10)),
                               At(x, 11), At(x, 12), At(x, 13), At(x, 14)),
     hmm_coord |-> DomTBLCoord(PyInt(At(x, 15)), PyInt(At(x, 16))),
     ali_coord |-> DomTBLCoord(PyInt(At(x, 17)), PyInt(At(x, 18))),
     env_coord |-> DomTBLCoord(PyInt(At(x, 19)), PyInt(At(x, 20))),
     acc |-> At(x, 21),
     description |-> Join(Drop(x, DescStart))]

\* rows.insert(0, row)
RowsAppend_Front(rs, r) == <<r>> \o rs

\* rows.append(row)
RowsAppend(rs, r) == Append(rs, r)

(***************************************************************************)
(* Inputs: the lines csv_iter may deliver.                                 *)
(***************************************************************************)
Template ==
    << <<"P", "1">>, <<"A", "1">>, <<"1", "0", "0">>,
       <<"Q", "1">>, <<"A", "2">>, <<"2", "0", "0">>,
       <<"1", "e", "-", "9">>, <<"5", "0", ".", "0">>, <<"0", ".", "5">>,
       <<"1">>, <<"2">>, <<"1", "e", "-", "7">>,
       <<"1", "e", "-", "6">>, <<"4", "8", ".", "0">>, <<"0", ".", "3">>,
       <<"1", "0">>, <<"5", "0">>, <<"1", "2">>, <<"4", "8">>,
       <<"3">>, <<"6", "0">>, <<"0", ".", "9", "5">>,
       <<"E", "x">>, <<"d", "e", "s", "c">>, <<"h", "e", "r", "e">> >>

Subst(x, p, t) == [x EXCEPT ![p + 1] = t]

Dash == <<"-">>

\* every score-like token and acc replaced by the sentinel "-"
DashLine ==
    [i \in 1..23 |-> IF (i - 1) \in {6, 7, 8, 11, 12, 13, 14, 21}
                     THEN Dash ELSE Template[i]]

\* signed and zero-padded integers
SignedLine ==
    Take(Subst(Subst(Subst(Template, 2, <<"+", "5">>), 9, <<"0", "0", "7">>),
               19, <<"-", "3">>), 22)

\* digits separated by one underscore at an integer position
UnderscoreLine == Subst(Template, 9, <<"1", "_", "0">>)

BadTokenAt ==
    (2 :> <<"a", "b", "c">>) @@ (5 :> <<"N", "/", "A">>) @@
    (9 :> <<"N", "/", "A">>) @@ (10 :> <<"1", ".", "5">>) @@
    (15 :> <<"-">>) @@ (16 :> <<"a", "b", "c">>) @@
    (17 :> <<"1", "_", "_", "0">>) @@ (18 :> <<"_", "1">>) @@
    (19 :> <<"1", "_">>) @@ (20 :> <<"+">>)

GoodLines ==
    {Take(Template, n) : n \in {22, 23, 25}} \cup {DashLine, SignedLine}

ShortLines ==
    {Take(Template, n) : n \in {0, 2, 10, 21}}
    \cup {Take(Subst(Template, 2, <<"a", "b", "c">>), 3),
          Take(Subst(Template, 9, <<"N", "/", "A">>), 10),
          Take(Subst(Template, 20, <<"1", ".", "5">>), 21),
          Take(Subst(Template, 2, <<"1", "_", "0">>), 10)}

BadIntLines ==
    {Subst(Template, p, BadTokenAt[p]) : p \in DOMAIN BadTokenAt}
    \cup {Subst(Subst(Template, 5, <<"a", "b", "c">>), 9, <<"N", "/", "A">>)}

Lines == GoodLines \cup ShortLines \cup BadIntLines \cup {UnderscoreLine}

Files == UNION {[1..k -> Lines] : k \in 0..MaxLines}

(***************************************************************************)
(* read_domtbl                                                             *)
(***************************************************************************)
NoResult == <<[none |-> TRUE]>>

\* csv_iter(file) yields the token list of the next logical line
csv_iter(f, i) == f[i + 1]

\* a file opened without the with statement stays as it is
WithExit_Leak(h) == h

\* leaving the with block, normally or by an exception, closes the file
WithExit(h) == "closed"

Init ==
    /\ arg \in {[kind |-> "path", exists |-> TRUE],
                [kind |-> "path", exists |-> FALSE],
                [kind |-> "stream", exists |-> TRUE]}
    /\ file \in (IF arg.exists THEN Files ELSE {<<>>})
    /\ handle = "none"
    /\ pos = 0
    /\ rows = <<>>
    /\ pc = "call"
    /\ result = NoResult
    /\ error = NoError
    /\ iter_out = [kind |-> "none", vals |-> <<>>, idx |-> 0]
    /\ assign_out = "none"
    /\ nassign = 0
    /\ coord = DomTBLCoord(1, 1)
    /\ ival = [kind |-> "none", start |-> 0, stop |-> 0]

\* rows = []; with open(filename, "r") as file:
Open ==
    /\ pc = "call"
    /\ arg.kind = "path"
    /\ arg.exists
    /\ rows' = <<>>
    /\ handle' = "open"
    /\ pc' = "loop"
    /\ UNCHANGED <<arg, file, pos, result, error>>
    /\ UNCHANGED callerVars
    /\ UNCHANGED coordVars

\* open() of a path that cannot be opened raises OSError
OpenMissing ==
    /\ pc = "call"
    /\ arg.kind = "path"
    /\ ~arg.exists
    /\ rows' = <<>>
    /\ error' = OSError
    /\ pc' = "raised"
    /\ UNCHANGED <<arg, file, handle, pos, result>>
    /\ UNCHANGED callerVars
    /\ UNCHANGED coordVars

\* open() of a stream object raises TypeError:
\* "expected str, bytes or os.PathLike object, not TextIOWrapper"
OpenStream ==
    /\ pc = "call"
    /\ arg.kind = "stream"
    /\ rows' = <<>>
    /\ error' = TypeError
    /\ pc' = "raised"
    /\ UNCHANGED <<arg, file, handle, pos, result>>
    /\ UNCHANGED callerVars
    /\ UNCHANGED coordVars

\* one iteration of the loop whose row is built and appended
LineOk ==
    /\ pc = "loop"
    /\ pos < Len(file)
    /\ LET x == csv_iter(file, pos) IN
         /\ FirstFailure(x) = NoError
         /\ rows' = RowsAppend(rows, DomTBLRow(x))
    /\ pos' = pos + 1
    /\ UNCHANGED <<arg, file, handle, pc, result, error>>
    /\ UNCHANGED callerVars
    /\ UNCHANGED coordVars

\* LineFail with the exception caught inside the loop: the line is dropped
\* and the loop goes on
LineFail_Skip ==
    /\ pc = "loop"
    /\ pos < Len(file)
    /\ FirstFailure(csv_iter(file, pos)) # NoError
    /\ pos' = pos + 1
    /\ UNCHANGED <<arg, file, handle, pc, rows, result, error>>
    /\ UNCHANGED callerVars
    /\ UNCHANGED coordVars

\* one iteration of the loop in which a subscript or int() raises: the
\* exception leaves the with block and the function
LineFail ==
    /\ pc = "loop"
    /\ pos < Len(file)
    /\ LET x == csv_iter(file, pos) IN
         /\ FirstFailure(x) # NoError
         /\ error' = FirstFailure(x)
    /\ pos' = pos + 1
    /\ handle' = WithExit(handle)
    /\ pc' = "raised"
    /\ UNCHANGED <<arg, file, rows, result>>
    /\ UNCHANGED callerVars
    /\ UNCHANGED coordVars

\* the line iterator itself raises (read or decoding error)
IterFail ==
    /\ pc = "loop"
    /\ error' = IterError
    /\ handle' = WithExit(handle)
    /\ pc' = "raised"
    /\ UNCHANGED <<arg, file, pos, rows, result>>
    /\ UNCHANGED callerVars
    /\ UNCHANGED coordVars

\* the iterator is exhausted: the loop and the with block end
EndLoop ==
    /\ pc = "loop"
    /\ pos = Len(file)
    /\ handle' = WithExit(handle)
    /\ pc' = "exit"
    /\ UNCHANGED <<arg, file, pos, rows, result, error>>
    /\ UNCHANGED callerVars
    /\ UNCHANGED coordVars

\* return rows
Return ==
    /\ pc = "exit"
    /\ result' = rows
    /\ pc' = "returned"
    /\ UNCHANGED <<arg, file, handle, pos, rows, error>>
    /\ UNCHANGED callerVars
    /\ UNCHANGED coordVars

(***************************************************************************)
(* The caller, once read_domtbl has returned.                              *)
(***************************************************************************)
RowFields ==
    <<"target", "query", "full_sequence", "domain", "hmm_coord",
      "ali_coord", "env_coord", "acc", "description">>

\* DomTBLRow derives from pydantic's BaseModel; it is not a dataclass
DomTBLRow_is_dataclass == FALSE

\* dataclasses.asdict(self): only a dataclass instance has fields to list
_asdict(row) ==
    IF DomTBLRow_is_dataclass
    THEN [kind |-> "dict", vals |-> [k \in 1..Len(RowFields) |-> row[RowFields[k]]]]
    ELSE [kind |-> "TypeError", vals |-> <<>>]

\* iter(self._asdict().values())
DomTBLRow_iter(row) ==
    LET d == _asdict(row) IN
    IF d.kind = "dict" THEN [kind |-> "values", vals |-> d.vals] ELSE d

\* the models declare no frozen configuration
Frozen == FALSE

\* setattr on a model instance
SetAttr(obj, f, v) == IF Frozen THEN obj ELSE [obj EXCEPT ![f] = v]

SetAttrOutcome == IF Frozen THEN "rejected" ELSE "accepted"

NewText == <<"n", "e", "w">>

\* for v in row: ...
IterRow ==
    /\ pc = "returned"
    /\ iter_out.kind = "none"
    /\ \E i \in 1..Len(result) :
         iter_out' = [kind |-> DomTBLRow_iter(result[i]).kind,
                      vals |-> DomTBLRow_iter(result[i]).vals,
                      idx |-> i]
    /\ UNCHANGED readerVars
    /\ UNCHANGED <<assign_out, nassign>>
    /\ UNCHANGED coordVars

\* row.<field> = v   or   row.<target|query>.length = v
Assign ==
    /\ pc = "returned"
    /\ nassign < MaxAssign
    /\ \E i \in 1..Len(result) :
         \/ \E f \in {"acc", "description"} :
              result' = [result EXCEPT ![i] = SetAttr(@, f, NewText)]
         \/ \E g \in {"target", "query"} :
              result' = [result EXCEPT
                           ![i] = SetAttr(@, g, SetAttr(@[g], "length", 0))]
    /\ assign_out' = SetAttrOutcome
    /\ nassign' = nassign + 1
    /\ UNCHANGED <<arg, file, handle, pos, rows, pc, error>>
    /\ UNCHANGED iter_out
    /\ UNCHANGED coordVars

Next ==
    \/ Open
    \/ OpenMissing
    \/ OpenStream
    \/ LineOk
    \/ LineFail
    \/ IterFail
    \/ EndLoop
    \/ Return
    \/ IterRow
    \/ Assign

Spec == Init /\ [][Next]_vars

(***************************************************************************)
(* DomTBLCoord.interval                                                    *)
(***************************************************************************)
NoInterval == [kind |-> "none", start |-> 0, stop |-> 0]

\* a 1-based closed interval
RInterval(start, stop) == [start |-> start, stop |-> stop]

\* a 0-based half-open interval
PyInterval(start, stop) == [kind |-> "interval", start |-> start, stop |-> stop]

to_pyinterval(r) == PyInterval(r.start - 1, r.stop)

\* interval with the arguments of RInterval exchanged
interval_Swapped(c) == to_pyinterval(RInterval(c.stop, c.start))

\* RInterval(self.start, self.stop).to_pyinterval()
interval(c) == to_pyinterval(RInterval(c.start, c.stop))

InitCoord ==
    /\ arg = [kind |-> "path", exists |-> TRUE]
    /\ file = <<>>
    /\ handle = "none"
    /\ pos = 0
    /\ rows = <<>>
    /\ pc = "idle"
    /\ result = NoResult
    /\ error = NoError
    /\ iter_out = [kind |-> "none", vals |-> <<>>, idx |-> 0]
    /\ assign_out = "none"
    /\ nassign = 0
    /\ coord \in {DomTBLCoord(s, e) : s \in (0 - MaxCoord)..MaxCoord,
                                      e \in (0 - MaxCoord)..MaxCoord}
    /\ ival = NoInterval

\* coord.interval
GetInterval ==
    /\ pc = "idle"
    /\ ival = NoInterval
    /\ ival' = interval(coord)
    /\ UNCHANGED coord
    /\ UNCHANGED readerVars
    /\ UNCHANGED callerVars

NextCoord == GetInterval

SpecCoord == InitCoord /\ [][NextCoord]_vars

(***************************************************************************)
(* Reference tables the properties are stated with.                        *)
(***************************************************************************)
\* the integer positions of the domtbl layout
CoercedPositions == {2, 5, 9, 10, 15, 16, 17, 18, 19, 20}

\* the optionally signed base-10 integers among the tokens, with their values
DecimalInts ==
    (<<"1", "0", "0">> :> 100) @@ (<<"2", "0", "0">> :> 200) @@
    (<<"1">> :> 1) @@ (<<"2">> :> 2) @@ (<<"3">> :> 3) @@
    (<<"1", "0">> :> 10) @@ (<<"5", "0">> :> 50) @@ (<<"1", "2">> :> 12) @@
    (<<"4", "8">> :> 48) @@ (<<"6", "0">> :> 60) @@
    (<<"+", "5">> :> 5) @@ (<<"0", "0", "7">> :> 7) @@ (<<"-", "3">> :> 0 - 3)

\* what int() accepts among the tokens: the above and digits separated by
\* single underscores
IntAccepted == DecimalInts @@ (<<"1", "_", "0">> :> 10)

FieldName ==
    (2 :> "target.length") @@ (5 :> "query.length") @@
    (9 :> "domain.id") @@ (10 :> "domain.size") @@
    (15 :> "hmm_coord.start") @@ (16 :> "hmm_coord.stop") @@
    (17 :> "ali_coord.start") @@ (18 :> "ali_coord.stop") @@
    (19 :> "env_coord.start") @@ (20 :> "env_coord.stop")

Space == <<" ">>

ExpectedDescription(t) ==
    CASE Len(t) = 22 -> <<>>
      [] Len(t) = 23 -> t[23]
      [] Len(t) = 24 -> t[23] \o Space \o t[24]
      [] Len(t) = 25 -> t[23] \o Space \o t[24] \o Space \o t[25]

ExpectedRow(t) ==
    [target |-> [name |-> t[1], accession |-> t[2], length |-> DecimalInts[t[3]]],
     query |-> [name |-> t[4], accession |-> t[5], length |-> DecimalInts[t[6]]],
     full_sequence |-> [e_value |-> t[7], score |-> t[8], bias |-> t[9]],
     domain |-> [id |-> DecimalInts[t[10]], size |-> DecimalInts[t[11]],
                 c_value |-> t[12], i_value |-> t[13],
                 score |-> t[14], bias |-> t[15]],
     hmm_coord |-> [start |-> DecimalInts[t[16]], stop |-> DecimalInts[t[17]]],
     ali_coord |-> [start |-> DecimalInts[t[18]], stop |-> DecimalInts[t[19]]],
     env_coord |-> [start |-> DecimalInts[t[20]], stop |-> DecimalInts[t[21]]],
     acc |-> t[22],
     description |-> ExpectedDescription(t)]

\* at least 22 tokens, base-10 integers at the integer positions
DecimalLine(t) ==
    /\ Len(t) >= 22
    /\ \A p \in CoercedPositions : t[p + 1] \in DOMAIN DecimalInts

\* the integer positions present in t whose token int() rejects
Rejected(t) ==
    {p \in CoercedPositions : p < Len(t) /\ t[p + 1] \notin DOMAIN IntAccepted}

\* the least element of a nonempty set of numbers
Least(S) == CHOOSE p \in S : \A q \in S : p <= q

\* a line whose Row cannot be built
BadLine(t) == Len(t) < 22 \/ Rejected(t) # {}

LineError == error.kind \in {"IndexError", "ValueError"}

(***************************************************************************)
(* Properties.                                                             *)
(***************************************************************************)

\* C1: every consumed line of at least 22 tokens with base-10 integers at
\* positions 2, 5, 9, 10, 15..20 has its Row in the accumulated rows, at the
\* line's place, with the fixed positional mapping: integers converted,
\* score-like tokens and acc kept as the strings they are ("-" included),
\* description the tokens from 22 on joined by single spaces.
C1_RowOfLine ==
    \A i \in 1..Len(file) :
        (i <= pos /\ DecimalLine(file[i]))
            => /\ Len(rows) >= i
               /\ rows[i] = ExpectedRow(file[i])
               /\ ~(pc = "raised" /\ pos = i /\ LineError)

C1_Witness ==
    /\ pc = "returned"
    /\ nassign = 0
    /\ Len(file) = 2
    /\ file[1] = DashLine
    /\ file[2] = Take(Template, 25)
    /\ Len(result) = 2
    /\ result[1].full_sequence.score = Dash
    /\ result[2].description = ExpectedDescription(file[2])

\* C2: the accumulated rows are at every point the Rows of the lines
\* consumed so far, in line order, and a call that ends normally returns one
\* Row per line, the i-th built from the i-th line.
C2_OrderPreserved ==
    /\ Len(rows) <= pos
    /\ pos <= Len(file)
    /\ \A i \in 1..Len(rows) : rows[i] = DomTBLRow(file[i])
    /\ pc \in {"loop", "exit", "returned"} => Len(rows) = pos
    /\ (pc = "returned" /\ nassign = 0)
           => /\ Len(result) = Len(file)
              /\ \A i \in 1..Len(file) : result[i] = DomTBLRow(file[i])

C2_Witness ==
    /\ pc = "returned"
    /\ nassign = 0
    /\ Len(file) = 2
    /\ file[1] = SignedLine
    /\ file[2] = Take(Template, 23)
    /\ result = <<DomTBLRow(SignedLine), DomTBLRow(Take(Template, 23))>>

\* the interval of a coordinate with start <= stop is (start - 1, stop) and
\* has as many positions as the closed interval [start, stop]
C3_IntervalValue ==
    (ival.kind = "interval" /\ coord.start <= coord.stop)
        => /\ ival.start = coord.start - 1
           /\ ival.stop = coord.stop
           /\ ival.stop - ival.start = Cardinality(coord.start..coord.stop)
           /\ Cardinality(ival.start..(ival.stop - 1))
                  = Cardinality(coord.start..coord.stop)

\* C3: the interval value above holds in every state and no step changes
\* the coordinate's start or stop.
C3_Interval == []C3_IntervalValue /\ [][coord' = coord]_vars

C3_Witness ==
    /\ ival.kind = "interval"
    /\ coord.start < coord.stop
    /\ ival.stop - ival.start > 1

C6_AllOrNothing ==
    /\ pc = "raised" => result = NoResult
    /\ result # NoResult
           => (pc = "returned" /\ \A i \in 1..Len(file) : ~BadLine(file[i]))
    /\ (pc = "raised" /\ LineError)
           => (BadLine(file[pos]) /\ \A j \in 1..(pos - 1) : ~BadLine(file[j]))
    /\ \A i \in 1..Len(file) :
           (i <= pos /\ BadLine(file[i])) => (pos = i /\ pc = "raised")

C6_Witness ==
    /\ pc = "raised"
    /\ LineError
    /\ pos = 2
    /\ Len(rows) = 1
    /\ result = NoResult

\* C7: the file is not open in any state in which the call has ended or
\* left the with block, it is open throughout the loop, and when no error
\* occurred it is closed only after the last line was consumed.
C7_HandleReleased ==
    /\ pc \in {"raised", "exit", "returned"} => handle # "open"
    /\ pc \in {"exit", "returned"} => handle = "closed"
    /\ (pc = "raised" /\ error.kind \in {"IndexError", "ValueError", "IterError"})
           => handle = "closed"
    /\ pc = "loop" => handle = "open"
    /\ (handle = "closed" /\ error = NoError) => pos = Len(file)

C7_Witness ==
    /\ pc = "raised"
    /\ error = IterError
    /\ pos = 1
    /\ handle = "closed"

\* C8: a call with an open stream does not fail because the argument is a
\* stream, and returns the Rows of the stream's lines.
C8_StreamAccepted ==
    arg.kind = "stream"
        => /\ pc = "raised" => error.kind \in {"IndexError", "ValueError", "IterError"}
           /\ (pc = "returned" /\ nassign = 0)
                  => result = [i \in 1..Len(file) |-> DomTBLRow(file[i])]

\* C9: iterating a returned Row yields its nine field values in the fixed
\* order.
C9_IterYieldsFields ==
    iter_out.kind # "none"
        => /\ iter_out.kind = "values"
           /\ Len(iter_out.vals) = 9
           /\ nassign = 0
                  => \A k \in 1..9 :
                         iter_out.vals[k] = result[iter_out.idx][RowFields[k]]

\* C10: once read_domtbl has returned, no assignment by the caller is
\* accepted and the returned Rows keep the values they were built with.
C10_Immutable ==
    [][(pc = "returned" /\ pc' = "returned")
           => (result' = result /\ assign_out' # "accepted")]_vars

====
